---- MODULE Spec2Model ----
(***************************************************************************)
(* The batch-submitter start-up driver, src/exec/run-batch-submitter.ts:   *)
(* run() validates the environment, builds the signer and the two          *)
(* submitters, and launches loop(func) once per enabled role.  loop()      *)
(* first clears the signer's pending transactions (when CLEAR_PENDING_TXS  *)
(* is 'true') and then calls func() forever with a sleep in between.       *)
(*                                                                         *)
(* Every await of the source is one step of the model: the JavaScript      *)
(* between two awaits runs to completion and is one atomic action.         *)
(* The L1 chain, the signer's RPC calls, the Submitters and   *)
(* getReceiptWithResubmission are the environment.                         *)
(***************************************************************************)
EXTENDS Integers, Sequences, FiniteSets

\* ------------------------------------------------------------------ bounds
\* The signer's 'latest' count when the process starts is in 0..MaxLatest.
MaxLatest == 1
\* Transactions broadcast but not mined when the process starts: 0..MaxGap.
MaxGap == 2
\* The call and failure counters saturate here (the loops never stop).
MaxCalls == 2
\* Batch transactions the Submitters broadcast over a run.
MaxBatchTxs == 1

\* ------------------------------------------------------------------- state
Roles == {"tx", "state"}

\* The environment variable that enables each role.
RunFlag(r) == IF r = "tx" THEN "RUN_TX_BATCH_SUBMITTER" ELSE "RUN_STATE_BATCH_SUBMITTER"

\* The required variables the model tells apart; OTHER_REQUIRED stands for the
\* twelve that are only parsed into the submitters' constructors.
RequiredNames == {"CLEAR_PENDING_TXS", "RUN_TX_BATCH_SUBMITTER",
                  "RUN_STATE_BATCH_SUBMITTER", "OTHER_REQUIRED"}

\* requiredEnvVars as the module is loaded: every key holds its own name.
requiredEnvVarsInit == [n \in RequiredNames |-> n]

\* Values process.env gives a variable; "" is an unset (or empty) variable.
FlagValues == {"", "true", "false"}

VARIABLES
    processEnv,       \* process.env, restricted to RequiredNames
    hasKey,           \* SEQUENCER_PRIVATE_KEY or MNEMONIC is set
    requiredEnvVars,  \* the module-level map run() overwrites
    runPc,            \* where run() is
    exitCode,         \* -1 while the process lives, else the status it exited with
    exitedBy,         \* "none", or the place that called exit
    failedAt,         \* "none", or the await of the clearing block that failed
    pc,               \* where each role's loop() is
    pendingTxs,       \* loop()'s pendingTxs, per role
    latestTxs,        \* loop()'s latestTxs, per role
    i,                \* loop()'s for-loop index, per role
    latest,           \* the chain: the signer's mined transaction count
    txs,              \* the chain: who broadcast the transaction at each nonce
    batchTxs,         \* batch transactions the Submitters have broadcast
    calls,            \* submitNextBatch() calls per role (saturating)
    outstanding,      \* submitNextBatch() calls per role that have not settled
    fails,            \* consecutive failed calls per role (saturating)
    sent,             \* sendTransaction calls loop() has made, in order
    reconEntered      \* how many times the clearing block was entered

vars == <<processEnv, hasKey, requiredEnvVars, runPc, exitCode, exitedBy, failedAt, pc,
          pendingTxs, latestTxs, i, latest, txs, batchTxs, calls, outstanding, fails, sent,
          reconEntered>>

chainVars == <<latest, txs, batchTxs>>
localVars == <<pendingTxs, latestTxs, i>>
runVars == <<processEnv, hasKey, requiredEnvVars, runPc>>

Min(a, b) == IF a < b THEN a ELSE b

\* The signer's 'pending' count: mined plus mempool.
pending == Len(txs)

\* A variant of clearPendingTxs: the flag tested for truthiness, which the
\* string 'false' passes.
clearPendingTxsTruthy == requiredEnvVars["CLEAR_PENDING_TXS"] # ""

\* Line 102: pending transactions are cleared only when the flag is 'true'.
clearPendingTxs == requiredEnvVars["CLEAR_PENDING_TXS"] = "true"

\* A variant of Enabled: the flag tested for truthiness, `if (flag)`, which
\* every non-empty string passes.
EnabledTruthy(r) == requiredEnvVars[RunFlag(r)] # ""

\* Lines 210, 213: a role runs only when its flag is exactly 'true'.
Enabled(r) == requiredEnvVars[RunFlag(r)] = "true"

Alive == exitCode = -1

ReconPcs == {"getPending", "getLatest", "getAddress", "sendTransaction", "getReceipt"}
WhilePcs == {"submitNextBatch", "sleep"}

Init ==
    /\ processEnv \in [RequiredNames -> FlagValues]
    /\ processEnv["OTHER_REQUIRED"] # "false"
    /\ hasKey \in BOOLEAN
    /\ requiredEnvVars = requiredEnvVarsInit
    /\ runPc = "start"
    /\ exitCode = -1
    /\ exitedBy = "none"
    /\ failedAt = "none"
    /\ pc = [r \in Roles |-> "idle"]
    /\ pendingTxs = [r \in Roles |-> 0]
    /\ latestTxs = [r \in Roles |-> 0]
    /\ i = [r \in Roles |-> 0]
    /\ latest \in 0..MaxLatest
    /\ \E gap \in 0..MaxGap : txs = [n \in 1..(latest + gap) |-> "other"]
    /\ batchTxs = 0
    /\ calls = [r \in Roles |-> 0]
    /\ outstanding = [r \in Roles |-> 0]
    /\ fails = [r \in Roles |-> 0]
    /\ sent = <<>>
    /\ reconEntered = 0

\* ------------------------------------------------------------------- run()
\* process.exit(1): the process is gone, nothing of it steps again.
Exit(by) ==
    /\ exitCode' = 1
    /\ exitedBy' = by

\* A variant of CheckEnv: the missing variable is logged and run() goes on.
CheckEnvNoExit ==
    /\ Alive
    /\ runPc = "start"
    /\ requiredEnvVars' = processEnv
    /\ runPc' = "signer"
    /\ UNCHANGED <<exitCode, exitedBy, failedAt, processEnv, hasKey, pc, localVars,
                   chainVars, calls, outstanding, fails, sent, reconEntered>>

\* Lines 94-100: a required variable that is unset (or empty) ends the process
\* with status 1; otherwise requiredEnvVars takes the environment's values.
CheckEnv ==
    /\ Alive
    /\ runPc = "start"
    /\ IF \E n \in RequiredNames : processEnv[n] = ""
         THEN /\ Exit("config")
              /\ UNCHANGED <<requiredEnvVars, runPc, failedAt>>
         ELSE /\ requiredEnvVars' = processEnv
              /\ runPc' = "signer"
              /\ UNCHANGED <<exitCode, exitedBy, failedAt>>
    /\ UNCHANGED <<processEnv, hasKey, pc, localVars, chainVars, calls, outstanding, fails,
                   sent, reconEntered>>

\* Lines 104-159: the providers, the signer and the two submitters.  With
\* neither SEQUENCER_PRIVATE_KEY nor MNEMONIC run() throws (line 120); the
\* awaited getAddress / eth_chainId calls (lines 123, 125) may reject too.
\* Either way run()'s promise rejects and nothing is launched.
ConstructSigner(rpcOk) ==
    /\ Alive
    /\ runPc = "signer"
    /\ runPc' = IF hasKey /\ rpcOk THEN "launch" ELSE "thrown"
    /\ UNCHANGED <<processEnv, hasKey, requiredEnvVars, exitCode, exitedBy, failedAt, pc,
                   localVars, chainVars, calls, outstanding, fails, sent, reconEntered>>

\* loop(func) up to its first await (lines 166-168 or 195-197): with
\* clearPendingTxs it has called getTransactionCount('pending'), without it
\* it is in the while loop and has called func().
LoopEntryPc == IF clearPendingTxs THEN "getPending" ELSE "submitNextBatch"

\* A variant of LaunchedAs: the clearing is started whether or not the role
\* is enabled.
LaunchedAsHoisted(r) ==
    IF Enabled(r) THEN LoopEntryPc
    ELSE IF clearPendingTxs THEN "getPending" ELSE "idle"

\* Lines 210, 213: loop() is called for an enabled role only.
LaunchedAs(r) == IF Enabled(r) THEN LoopEntryPc ELSE "idle"

\* Lines 209-215: loop() is called, not awaited, for each enabled role; each
\* call runs synchronously to its first await, so both are under way when
\* run() returns.
Launch ==
    /\ Alive
    /\ runPc = "launch"
    /\ runPc' = "done"
    /\ pc' = [r \in Roles |-> LaunchedAs(r)]
    /\ calls' = [r \in Roles |-> IF LaunchedAs(r) = "submitNextBatch" THEN 1 ELSE 0]
    /\ outstanding' = calls'
    /\ reconEntered' = Cardinality({r \in Roles : LaunchedAs(r) = "getPending"})
    /\ UNCHANGED <<processEnv, hasKey, requiredEnvVars, exitCode, exitedBy, failedAt,
                   localVars, chainVars, fails, sent>>

\* ------------------------------------------------------------------ loop()
\* A variant of CatchClearError: the handler of the while loop, which logs
\* the error and goes on, here into the while loop.
CatchClearErrorContinues(r) ==
    /\ failedAt' = pc[r]
    /\ pc' = [pc EXCEPT ![r] = "submitNextBatch"]
    /\ calls' = [calls EXCEPT ![r] = Min(@ + 1, MaxCalls)]
    /\ outstanding' = [outstanding EXCEPT ![r] = @ + 1]
    /\ UNCHANGED <<exitCode, exitedBy, localVars, chainVars, fails, sent>>

\* Lines 189-192: any error of the clearing block ends the process.
CatchClearError(r) ==
    /\ Exit("reconciler")
    /\ failedAt' = pc[r]
    /\ UNCHANGED <<pc, localVars, chainVars, calls, outstanding, fails, sent>>

\* Lines 195-197: the while loop is entered and func() is called.
EnterWhile(r) ==
    /\ pc' = [pc EXCEPT ![r] = "submitNextBatch"]
    /\ calls' = [calls EXCEPT ![r] = Min(@ + 1, MaxCalls)]
    /\ outstanding' = [outstanding EXCEPT ![r] = @ + 1]

\* Line 168: getTransactionCount('pending') settles.
GetPendingReturns(r, ok) ==
    /\ Alive
    /\ pc[r] = "getPending"
    /\ IF ok
         THEN /\ pendingTxs' = [pendingTxs EXCEPT ![r] = pending]
              /\ pc' = [pc EXCEPT ![r] = "getLatest"]
              /\ UNCHANGED <<exitCode, exitedBy, failedAt, latestTxs, i, chainVars, calls, outstanding,
                             fails, sent>>
         ELSE /\ CatchClearError(r)
    /\ UNCHANGED <<runVars, reconEntered>>

\* Lines 169-174: getTransactionCount('latest') settles; with a gap the for
\* loop starts at latestTxs and awaits getAddress(), without one the while
\* loop is entered.
GetLatestReturns(r, ok) ==
    /\ Alive
    /\ pc[r] = "getLatest"
    /\ IF ok
         THEN /\ latestTxs' = [latestTxs EXCEPT ![r] = latest]
              /\ IF pendingTxs[r] > latest
                   THEN /\ i' = [i EXCEPT ![r] = latest]
                        /\ pc' = [pc EXCEPT ![r] = "getAddress"]
                        /\ UNCHANGED <<calls, outstanding>>
                   ELSE /\ EnterWhile(r)
                        /\ UNCHANGED i
              /\ UNCHANGED <<exitCode, exitedBy, failedAt, pendingTxs, chainVars, fails, sent>>
         ELSE /\ CatchClearError(r)
    /\ UNCHANGED <<runVars, reconEntered>>

\* Lines 173-177: getAddress() resolves (a Wallet's address is local) and
\* sendTransaction({to: self, value: 0, nonce: i}) is called.
GetAddressReturns(r) ==
    /\ Alive
    /\ pc[r] = "getAddress"
    /\ sent' = Append(sent, [role |-> r, nonce |-> i[r]])
    /\ pc' = [pc EXCEPT ![r] = "sendTransaction"]
    /\ UNCHANGED <<runVars, exitCode, exitedBy, failedAt, localVars, chainVars, calls, outstanding,
                   fails, reconEntered>>

\* Lines 173-186: sendTransaction settles.  The node takes a transaction only
\* at a nonce that is not mined yet; it then replaces what the mempool held at
\* that nonce, and getReceiptWithResubmission is called.  It may refuse any
\* transaction (underpriced replacement, nonce too low, provider error).
SendTransactionReturns(r, ok) ==
    /\ Alive
    /\ pc[r] = "sendTransaction"
    /\ IF ok
         THEN /\ i[r] >= latest
              /\ txs' = [txs EXCEPT ![i[r] + 1] = r]
              /\ pc' = [pc EXCEPT ![r] = "getReceipt"]
              /\ UNCHANGED <<exitCode, exitedBy, failedAt, localVars, latest, batchTxs,
                             calls, outstanding, fails, sent>>
         ELSE /\ CatchClearError(r)
    /\ UNCHANGED <<runVars, reconEntered>>

\* Lines 172, 179-187: getReceiptWithResubmission settles: with a receipt once
\* the role's own transaction at nonce i is mined, and then i++ and either the
\* next round of the for loop or the while loop; or with an error.
GetReceiptReturns(r, ok) ==
    /\ Alive
    /\ pc[r] = "getReceipt"
    /\ IF ok
         THEN /\ i[r] < latest
              /\ txs[i[r] + 1] = r
              /\ i' = [i EXCEPT ![r] = @ + 1]
              /\ IF i[r] + 1 < pendingTxs[r]
                   THEN /\ pc' = [pc EXCEPT ![r] = "getAddress"]
                        /\ UNCHANGED <<calls, outstanding>>
                   ELSE /\ EnterWhile(r)
              /\ UNCHANGED <<exitCode, exitedBy, failedAt, pendingTxs, latestTxs, chainVars,
                             fails, sent>>
         ELSE /\ CatchClearError(r)
    /\ UNCHANGED <<runVars, reconEntered>>

\* A variant of CatchSubmitError: the handler of the clearing block, which
\* ends the process.
CatchSubmitErrorExits(r) ==
    /\ Exit("loop")
    /\ fails' = [fails EXCEPT ![r] = Min(@ + 1, MaxCalls)]
    /\ UNCHANGED <<failedAt, pc>>

\* A variant of CatchSubmitError: no handler, so loop()'s promise rejects and
\* the role's loop is over.
CatchSubmitErrorRethrows(r) ==
    /\ fails' = [fails EXCEPT ![r] = Min(@ + 1, MaxCalls)]
    /\ pc' = [pc EXCEPT ![r] = "rejected"]
    /\ UNCHANGED <<exitCode, exitedBy, failedAt>>

\* Lines 198-201: an error of func() is logged and the loop goes on.
CatchSubmitError(r) ==
    /\ fails' = [fails EXCEPT ![r] = Min(@ + 1, MaxCalls)]
    /\ pc' = [pc EXCEPT ![r] = "sleep"]
    /\ UNCHANGED <<exitCode, exitedBy, failedAt>>

\* A variant of SubmitNextBatchReturns: a failed call is retried at once,
\* without the sleep.
SubmitNextBatchReturnsRetriesAtOnce(r, ok) ==
    /\ Alive
    /\ pc[r] = "submitNextBatch"
    /\ IF ok
         THEN /\ fails' = [fails EXCEPT ![r] = 0]
              /\ pc' = [pc EXCEPT ![r] = "sleep"]
              /\ outstanding' = [outstanding EXCEPT ![r] = @ - 1]
              /\ UNCHANGED calls
         ELSE /\ fails' = [fails EXCEPT ![r] = Min(@ + 1, MaxCalls)]
              /\ calls' = [calls EXCEPT ![r] = Min(@ + 1, MaxCalls)]
              /\ UNCHANGED <<pc, outstanding>>
    /\ UNCHANGED <<runVars, exitCode, exitedBy, failedAt, localVars, chainVars, sent,
                   reconEntered>>

\* Lines 196-204: func() settles; either way the loop starts its sleep.
SubmitNextBatchReturns(r, ok) ==
    /\ Alive
    /\ pc[r] = "submitNextBatch"
    /\ outstanding' = [outstanding EXCEPT ![r] = @ - 1]
    /\ IF ok
         THEN /\ fails' = [fails EXCEPT ![r] = 0]
              /\ pc' = [pc EXCEPT ![r] = "sleep"]
              /\ UNCHANGED <<exitCode, exitedBy, failedAt>>
         ELSE CatchSubmitError(r)
    /\ UNCHANGED <<runVars, localVars, chainVars, calls, sent, reconEntered>>

\* A variant of Wake: func() is called on every tick of a timer, whether or
\* not the call before has settled.
WakeWithoutAwait(r) ==
    /\ Alive
    /\ pc[r] \in WhilePcs
    /\ EnterWhile(r)
    /\ UNCHANGED <<runVars, exitCode, exitedBy, failedAt, localVars, chainVars, fails,
                   sent, reconEntered>>

\* Lines 203-206, 195-197: the timer fires and func() is called again.
Wake(r) ==
    /\ Alive
    /\ pc[r] = "sleep"
    /\ EnterWhile(r)
    /\ UNCHANGED <<runVars, exitCode, exitedBy, failedAt, localVars, chainVars, fails,
                   sent, reconEntered>>

\* ------------------------------------------------------------- environment
\* The chain mines the signer's next pending transaction (followed for as
\* long as the process lives).
Mine ==
    /\ Alive
    /\ latest < pending
    /\ latest' = latest + 1
    /\ UNCHANGED <<runVars, exitCode, exitedBy, failedAt, pc, localVars, txs, batchTxs,
                   calls, outstanding, fails, sent, reconEntered>>

\* getReceiptWithResubmission, on its timeout: the role's transaction is not
\* the one the mempool holds at its nonce, and a replacement is broadcast.
Resubmit(r) ==
    /\ Alive
    /\ pc[r] = "getReceipt"
    /\ i[r] >= latest
    /\ txs[i[r] + 1] # r
    /\ txs' = [txs EXCEPT ![i[r] + 1] = r]
    /\ UNCHANGED <<runVars, exitCode, exitedBy, failedAt, pc, localVars, latest, batchTxs,
                   calls, outstanding, fails, sent, reconEntered>>

\* submitNextBatch(), while it runs: the Submitter broadcasts a batch
\* transaction from the shared signer at the next free nonce.
SubmitBroadcast(r) ==
    /\ Alive
    /\ pc[r] = "submitNextBatch"
    /\ batchTxs < MaxBatchTxs
    /\ txs' = Append(txs, "other")
    /\ batchTxs' = batchTxs + 1
    /\ UNCHANGED <<runVars, exitCode, exitedBy, failedAt, pc, localVars, latest, calls, outstanding,
                   fails, sent, reconEntered>>

\* ----------------------------------------------------------- specification
LoopStep(r) ==
    \/ \E ok \in BOOLEAN : GetPendingReturns(r, ok)
    \/ \E ok \in BOOLEAN : GetLatestReturns(r, ok)
    \/ GetAddressReturns(r)
    \/ \E ok \in BOOLEAN : SendTransactionReturns(r, ok)
    \/ \E ok \in BOOLEAN : GetReceiptReturns(r, ok)
    \/ \E ok \in BOOLEAN : SubmitNextBatchReturns(r, ok)
    \/ Wake(r)

Next ==
    \/ CheckEnv
    \/ \E rpcOk \in BOOLEAN : ConstructSigner(rpcOk)
    \/ Launch
    \/ \E r \in Roles : LoopStep(r)
    \/ Mine
    \/ \E r \in Roles : Resubmit(r)
    \/ \E r \in Roles : SubmitBroadcast(r)

Spec == Init /\ [][Next]_vars

\* Every submitNextBatch() call settles and every timer fires.
SubmitSettles(r) == \E ok \in BOOLEAN : SubmitNextBatchReturns(r, ok)

FairSpec ==
    /\ Spec
    /\ \A r \in Roles : WF_vars(SubmitSettles(r)) /\ WF_vars(Wake(r))

TypeOK ==
    /\ runPc \in {"start", "signer", "launch", "done", "thrown"}
    /\ exitCode \in {-1, 1}
    /\ exitedBy \in {"none", "config", "reconciler"}
    /\ failedAt \in {"none"} \cup ReconPcs
    /\ pc \in [Roles -> {"idle"} \cup ReconPcs \cup WhilePcs]
    /\ latest <= pending
    /\ \A r \in Roles : calls[r] \in 0..MaxCalls /\ fails[r] \in 0..MaxCalls
    /\ \A r \in Roles : outstanding[r] \in {0, 1}

\* ------------------------------------------------------------------ claims
\* The clearing block of role r has run to its end.
ReconDone(r) == clearPendingTxs /\ pc[r] \in WhilePcs

\* How many sendTransaction calls loop() has made at nonce n.
SentAt(n) == Cardinality({k \in 1..Len(sent) : sent[k].nonce = n})

OneRole == \E r \in Roles : ~Enabled(r)

\* C1: the clearing block (the read of the pending and latest counts and the
\* for loop over the gap) is entered at most once in the life of the process,
\* for every combination of the three flags.
C1_ReconciledAtMostOnce == reconEntered <= 1

\* C2: when a self-transfer broadcast or a confirmation wait of the clearing
\* block has failed, submitNextBatch() of neither role has ever been called.
C2_FatalReconciliationHaltsStartup ==
    failedAt \in {"sendTransaction", "getReceipt"} => \A r \in Roles : calls[r] = 0

\* C3: with the clear-pending flag set, no submitNextBatch() call of any role
\* begins while any clearing (a count read, a self-transfer broadcast or its
\* confirmation wait) is still under way.
C3_ReconcilerExclusive ==
    (clearPendingTxs /\ \E r \in Roles : pc[r] \in ReconPcs)
        => \A r \in Roles : calls[r] = 0

\* C4: over the whole run the self-transfers are sent at latest, latest+1, ...
\* in this order: the first at the latest count that was read, each next one
\* at the nonce after the one before.
C4_ReconciliationOrder ==
    \A k \in 1..Len(sent) :
        IF k = 1 THEN sent[k].nonce = latestTxs[sent[k].role]
                 ELSE sent[k].nonce = sent[k - 1].nonce + 1

\* C5: at every moment at most one self-transfer of the clearing is awaiting
\* its confirmation, and none is being sent while another awaits it.
C5_OneAtATime ==
    /\ Cardinality({r \in Roles : pc[r] = "getReceipt"}) <= 1
    /\ \A r, o \in Roles :
          (pc[r] = "getReceipt" /\ o # r) => pc[o] # "sendTransaction"

\* C6: when a clearing that found pending > latest ends with every awaited
\* self-transfer confirmed, the signer's pending and latest counts are equal.
C6_ReconciliationClosesGaps ==
    [][\A r \in Roles :
          (pc[r] = "getReceipt" /\ pc'[r] = "submitNextBatch")
              => pending' = latest']_vars

\* Both roles' loops are in while (true).
BothInWhile == \A r \in Roles : pc[r] \in WhilePcs

\* C7: with both loops running, whatever the outcomes of the other role's
\* calls (all of them failures included), each role calls submitNextBatch()
\* again and again, and a call of one role that settles changes nothing of
\* the other role's loop.
C7_LoopIsolation ==
    /\ \A r \in Roles : <>[]BothInWhile => []<><<Wake(r)>>_vars
    /\ [][\A r \in Roles :
             (pc[r] = "submitNextBatch" /\ pc'[r] # "submitNextBatch")
                 => /\ Alive'
                    /\ \A o \in Roles \ {r} :
                          /\ pc'[o] = pc[o]
                          /\ calls'[o] = calls[o]
                          /\ fails'[o] = fails[o]]_vars

\* The transaction-batch role has failed MaxCalls times in a row while the
\* state-batch role is in its MaxCalls-th call, none of which failed.
C7_Witness ==
    /\ BothInWhile
    /\ fails["tx"] = MaxCalls
    /\ calls["state"] = MaxCalls
    /\ fails["state"] = 0
    /\ pc["state"] = "submitNextBatch"

\* C8: a submitNextBatch() call that is over, failed or not, leaves the
\* process alive and its loop in the sleep that precedes the next call; the
\* process exits only from the clearing block or from a missing required
\* variable.
C8_NoExitOnLoopFailure ==
    /\ [](~Alive => exitedBy \in {"reconciler", "config"})
    /\ [][\A r \in Roles :
             (pc[r] = "submitNextBatch" /\ pc'[r] # "submitNextBatch")
                 => (Alive' /\ pc'[r] = "sleep")]_vars

\* A role is in a further call after MaxCalls failures in a row.
C8_Witness ==
    \E r \in Roles : fails[r] = MaxCalls /\ pc[r] = "submitNextBatch" /\ Alive

\* C9: a role whose enable flag is not 'true' is never launched: its
\* submitNextBatch() is never called, whatever the other flags and the chain.
C9_DisabledNeverScheduled ==
    \A r \in Roles :
        processEnv[RunFlag(r)] # "true" => (calls[r] = 0 /\ pc[r] = "idle")

\* One role is disabled and idle while the other has cleared a gap and is in
\* its loop.
C9_Witness ==
    \E r, o \in Roles :
        /\ processEnv[RunFlag(r)] = "false"
        /\ pc[r] = "idle"
        /\ ReconDone(o)
        /\ sent # <<>>
        /\ calls[o] = MaxCalls

\* C10: once a clearing has ended well, the run has made exactly one
\* sendTransaction call per nonce of the window [latest, pending) it read,
\* pending - latest in all, and none when no window had pending > latest.
C10_OneBroadcastPerNonce ==
    Alive =>
        /\ \A r \in Roles :
              (ReconDone(r) /\ pendingTxs[r] > latestTxs[r])
                  => /\ Len(sent) = pendingTxs[r] - latestTxs[r]
                     /\ \A n \in latestTxs[r]..(pendingTxs[r] - 1) : SentAt(n) = 1
        /\ (\A r \in Roles : Enabled(r) => (ReconDone(r) /\ pendingTxs[r] <= latestTxs[r]))
              => sent = <<>>

\* With at most one role enabled the clearing block runs once, and C1 to C6
\* and C10 hold of it.
SingleLoopReconciliation ==
    OneRole =>
        /\ C1_ReconciledAtMostOnce
        /\ C2_FatalReconciliationHaltsStartup
        /\ C3_ReconcilerExclusive
        /\ C4_ReconciliationOrder
        /\ C5_OneAtATime
        /\ C10_OneBroadcastPerNonce

SingleLoopClosesGaps ==
    [][OneRole => \A r \in Roles :
          (pc[r] = "getReceipt" /\ pc'[r] = "submitNextBatch")
              => pending' = latest']_vars

\* A single loop has cleared a gap of MaxGap transactions.
SingleLoopWitness ==
    /\ OneRole
    /\ Len(sent) = MaxGap
    /\ \E r \in Roles : ReconDone(r)

\* C11: a failure of any await of the clearing block (a count read, a
\* self-transfer broadcast, a confirmation wait) ends the process with status
\* 1, and once the process has ended no self-transfer is sent and no
\* submitNextBatch() call is made.
C11_ReconciliationFailureIsFatal ==
    /\ [](failedAt # "none" => (exitCode = 1 /\ exitedBy = "reconciler"))
    /\ [][~Alive => /\ sent' = sent
                    /\ pc' = pc
                    /\ calls' = calls
                    /\ outstanding' = outstanding]_vars

\* A confirmation wait has failed after a self-transfer was sent, and the
\* process has ended with status 1.
C11_Witness ==
    /\ failedAt = "getReceipt"
    /\ sent # <<>>
    /\ exitCode = 1

\* C12: with the clear-pending flag not 'true' the clearing block is never
\* entered: no count is read and no self-transfer is sent whatever the gap,
\* and each enabled role is in its first submitNextBatch() call as soon as
\* run() has launched it.
C12_NoClearingWithoutFlag ==
    processEnv["CLEAR_PENDING_TXS"] # "true" =>
        /\ reconEntered = 0
        /\ sent = <<>>
        /\ \A r \in Roles : pc[r] \notin ReconPcs
        /\ runPc = "done" =>
              \A r \in Roles :
                  processEnv[RunFlag(r)] = "true"
                      => (calls[r] >= 1 /\ pc[r] \in WhilePcs)

\* The flag is 'false', transactions are pending, and a role is in its
\* MaxCalls-th call.
C12_Witness ==
    /\ processEnv["CLEAR_PENDING_TXS"] = "false"
    /\ pending > latest
    /\ \E r \in Roles : calls[r] = MaxCalls /\ pc[r] = "submitNextBatch"

\* C13: loop() never sends two fresh self-transfers at the same nonce, and no
\* two confirmation waits are under way for the same nonce.
C13_OneFreshSendPerNonce ==
    /\ \A k, j \in 1..Len(sent) : k # j => sent[k].nonce # sent[j].nonce
    /\ \A r, o \in Roles :
          (r # o /\ pc[r] = "getReceipt" /\ pc[o] = "getReceipt") => i[r] # i[o]

\* C14: each role has at most one submitNextBatch() call that has not
\* settled.
C14_IterationsSequential == \A r \in Roles : outstanding[r] <= 1

\* A role is in its MaxCalls-th call, the only one of its calls not settled.
C14_Witness ==
    \E r \in Roles :
        calls[r] = MaxCalls /\ outstanding[r] = 1 /\ pc[r] = "submitNextBatch"

\* C15: a call after the first starts from the sleep and from nowhere else,
\* a call that fails ends in the sleep as one that succeeds does, and the
\* sleep ends in the next call.
C15_UniformDelay ==
    [][\A r \in Roles :
          /\ (calls'[r] # calls[r] /\ calls[r] > 0) => pc[r] = "sleep"
          /\ fails'[r] # fails[r] => pc'[r] = "sleep"
          /\ (pc[r] = "sleep" /\ pc'[r] # "sleep") => pc'[r] = "submitNextBatch"]_vars

\* Both roles are in a call after the first, one after a failed call and the
\* other with no failure.
C15_Witness ==
    \E r, o \in Roles :
        /\ fails[r] = 1 /\ calls[r] = MaxCalls /\ pc[r] = "submitNextBatch"
        /\ fails[o] = 0 /\ calls[o] = MaxCalls /\ pc[o] = "submitNextBatch"

\* C16: a loop that has made its first submitNextBatch() call makes calls
\* again and again, given that every call settles and every timer fires.
C16_RunningLoopNeverStops ==
    \A r \in Roles : <>(calls[r] > 0) => []<><<Wake(r)>>_vars

\* With at most one role enabled C16 holds.
SingleLoopNeverStops ==
    \A r \in Roles :
        ((\E o \in Roles : processEnv[RunFlag(o)] # "true") /\ <>(calls[r] > 0))
            => []<><<Wake(r)>>_vars

\* C17: with a required variable missing run() does not get past its check:
\* no loop is launched, no count is read, no self-transfer is sent, no
\* submitNextBatch() call is made, and the process ends only with status 1,
\* from the check.
C17_MissingConfigIsFatal ==
    (\E n \in RequiredNames : processEnv[n] = "") =>
        /\ runPc = "start"
        /\ \A r \in Roles : pc[r] = "idle" /\ calls[r] = 0
        /\ sent = <<>>
        /\ reconEntered = 0
        /\ ~Alive => (exitCode = 1 /\ exitedBy = "config")

\* Only the clear-pending flag is missing, and the process has ended with
\* status 1.
C17_Witness ==
    /\ processEnv["CLEAR_PENDING_TXS"] = ""
    /\ \A r \in Roles : processEnv[RunFlag(r)] = "true"
    /\ exitCode = 1

\* C18: with no role enabled the clearing block is never entered, even with
\* the clear-pending flag set and transactions pending: no count is read, no
\* transaction is sent, and the mempool is as it was.
C18_NoRoleNoClearing ==
    (\A r \in Roles : processEnv[RunFlag(r)] # "true") =>
        /\ reconEntered = 0
        /\ sent = <<>>
        /\ \A r \in Roles : pc[r] = "idle" /\ calls[r] = 0
        /\ batchTxs = 0
        /\ \A n \in 1..Len(txs) : txs[n] = "other"

\* run() has returned with no role enabled, the flag set and transactions
\* pending.
C18_Witness ==
    /\ \A r \in Roles : processEnv[RunFlag(r)] = "false"
    /\ processEnv["CLEAR_PENDING_TXS"] = "true"
    /\ pending > latest
    /\ runPc = "done"

====
